---- MODULE Spec2Model ----
\* Generic B-spline evaluation engine (spline_library/splines/generic_b_spline.h):
\* construction of GenericBSpline / LoopingGenericBSpline, the segment locator,
\* the de Boor position and derivative recursions and segmentLength.
\*
\* Vectors keep the source's 0-based indices: a std::vector of n elements is a
\* function with domain 0..n-1.  floating_t values are exact rationals <<n, d>>
\* (d > 0, lowest terms); <<0, 0>> stands for any non-finite IEEE value (+inf,
\* -inf, NaN), which is what a division by a zero knot span produces.
\* InterpolationType is a one-dimensional vector, i.e. one floating_t.
\* Arithmetic is exact: floating-point rounding, and the narrowing of globalT to
\* float in computeDeboor's signature, are not modelled (the parameters and knots
\* used here are small rationals).
EXTENDS Integers, FiniteSets, Sequences, TLC

\* ---------------------------------------------------------------- bounds
MaxPoints == 3
MaxDegree == 2
MaxValue == 1
TDen == 2
MaxKnot == 2

\* size_t arithmetic is modular; the width is scaled down from 2^64 so that the
\* model checker's integers can hold it (only wrap-around versus no wrap-around
\* is observable in the model).
SizeTModulus == 2^16

VARIABLES kind, points, degree, pc, baseSegmentCount, common, query

vars == <<kind, points, degree, pc, baseSegmentCount, common, query>>

\* ---------------------------------------------------------------- floating_t
Abs(x) == IF x < 0 THEN -x ELSE x

RECURSIVE GCD(_, _)
GCD(a, b) == IF b = 0 THEN a ELSE GCD(b, a % b)

NonFinite == <<0, 0>>

IsFinite(x) == x[2] # 0

Rat(n, d) ==
    IF d = 0 THEN NonFinite
    ELSE LET g == GCD(Abs(n), Abs(d))
             s == IF d < 0 THEN -1 ELSE 1
         IN <<(s * n) \div g, (s * d) \div g>>

Zero == Rat(0, 1)

One == Rat(1, 1)

FAdd(x, y) ==
    IF ~IsFinite(x) \/ ~IsFinite(y) THEN NonFinite
    ELSE Rat(x[1] * y[2] + y[1] * x[2], x[2] * y[2])

FSub(x, y) ==
    IF ~IsFinite(x) \/ ~IsFinite(y) THEN NonFinite
    ELSE Rat(x[1] * y[2] - y[1] * x[2], x[2] * y[2])

FMul(x, y) ==
    IF ~IsFinite(x) \/ ~IsFinite(y) THEN NonFinite
    ELSE Rat(x[1] * y[1], x[2] * y[2])

\* x / y; a zero divisor gives a non-finite value
FDiv(x, y) ==
    IF ~IsFinite(x) \/ ~IsFinite(y) THEN NonFinite
    ELSE IF y[1] = 0 THEN NonFinite
    ELSE Rat(x[1] * y[2], x[2] * y[1])

\* comparisons with a non-finite operand are false, as for NaN
FLess(x, y) == IsFinite(x) /\ IsFinite(y) /\ x[1] * y[2] < y[1] * x[2]

FLessEq(x, y) == IsFinite(x) /\ IsFinite(y) /\ x[1] * y[2] <= y[1] * x[2]

FAbs(x) == <<Abs(x[1]), x[2]>>

\* ---------------------------------------------------------------- vectors
Size(v) == Cardinality(DOMAIN v)

EmptyVector == [i \in {} |-> Zero]

SizeT(n) == n % SizeTModulus

\* ---------------------------------------------------------------- knot tables
\* SplineCommon::computeTValuesWithOuterPadding(points, alpha = 0, padding):
\* one T value per index -padding .. size-1+padding, T[0] = 0, and with alpha = 0
\* every increment is 1 whatever the geometry.
computeTValuesWithOuterPadding(pts, padding) ==
    [i \in (0 - padding)..(Size(pts) - 1 + padding) |-> Rat(i, 1)]

\* SplineCommon::computeLoopingTValues(points, alpha = 0, padding): the same with
\* the points wrapping, plus one trailing value: indices -padding .. size+padding.
computeLoopingTValues(pts, padding) ==
    [i \in (0 - padding)..(Size(pts) + padding) |-> Rat(i, 1)]

\* indexToT[i] of an unordered_map: a missing key reads as a value-initialised 0
TableAt(indexToT, i) == IF i \in DOMAIN indexToT THEN indexToT[i] ELSE Zero

\* std::vector<floating_t> knots(indexToT.size()), then
\* for(i = -padding; i < last; i++) knots[i + padding] = indexToT[i]
CopyKnots(indexToT, padding, last) ==
    [j \in 0..(Size(indexToT) - 1) |->
        IF j - padding < last THEN TableAt(indexToT, j - padding) ELSE Zero]

\* ---------------------------------------------------------------- GenericBSplineCommon
GenericBSplineCommon(positions, knots, splineDegree) ==
    [positions |-> positions, knots |-> knots, splineDegree |-> splineDegree]

NoCurve == GenericBSplineCommon(EmptyVector, EmptyVector, 0)

\* segmentCount with the padding width taken for the degree
segmentCountByPadding(c) == SizeT(Size(c.positions) - (c.splineDegree - 1))

segmentCount(c) == SizeT(Size(c.positions) - c.splineDegree)

\* SplineCommon::getIndexForT(knots, t): the greatest knot index whose knot is <= t
getIndexForT(knots, t) ==
    LET below == {j \in DOMAIN knots : FLessEq(knots[j], t)}
    IN IF below = {} THEN 0 ELSE CHOOSE j \in below : \A k \in below : k <= j

\* segmentForT without the shift from knot index to segment index
segmentForTUnshifted(c, t) ==
    IF FLess(t, Zero) THEN 0
    ELSE LET segmentIndex == SizeT(getIndexForT(c.knots, t))
         IN IF segmentIndex > SizeT(segmentCount(c) - 1)
            THEN SizeT(segmentCount(c) - 1)
            ELSE segmentIndex

\* segmentForT without the clamp to the last segment
segmentForTUnclamped(c, t) ==
    IF FLess(t, Zero) THEN 0
    ELSE SizeT(getIndexForT(c.knots, t) - (c.splineDegree - 1))

segmentForT(c, t) ==
    IF FLess(t, Zero) THEN 0
    ELSE LET segmentIndex == SizeT(getIndexForT(c.knots, t) - (c.splineDegree - 1))
         IN IF segmentIndex > SizeT(segmentCount(c) - 1)
            THEN SizeT(segmentCount(c) - 1)
            ELSE segmentIndex

segmentT(c, segmentIndex) == c.knots[segmentIndex + c.splineDegree - 1]

\* computeDeboor with the blend factor measured from knots[knotIndex]
RECURSIVE computeDeboorShiftedAlpha(_, _, _, _)
computeDeboorShiftedAlpha(c, knotIndex, deg, globalT) ==
    IF deg = 0 THEN c.positions[knotIndex]
    ELSE LET alpha == FDiv(FSub(globalT, c.knots[knotIndex]),
                           FSub(c.knots[knotIndex + c.splineDegree - deg],
                                c.knots[knotIndex - 1]))
             leftRecursive == computeDeboorShiftedAlpha(c, knotIndex - 1, deg - 1, globalT)
             rightRecursive == computeDeboorShiftedAlpha(c, knotIndex, deg - 1, globalT)
         IN FAdd(FMul(leftRecursive, FSub(One, alpha)), FMul(rightRecursive, alpha))

\* ---- the de Boor position recursion
RECURSIVE computeDeboor(_, _, _, _)
computeDeboor(c, knotIndex, deg, globalT) ==
    IF deg = 0 THEN c.positions[knotIndex]
    ELSE LET alpha == FDiv(FSub(globalT, c.knots[knotIndex - 1]),
                           FSub(c.knots[knotIndex + c.splineDegree - deg],
                                c.knots[knotIndex - 1]))
             leftRecursive == computeDeboor(c, knotIndex - 1, deg - 1, globalT)
             rightRecursive == computeDeboor(c, knotIndex, deg - 1, globalT)
         IN FAdd(FMul(leftRecursive, FSub(One, alpha)), FMul(rightRecursive, alpha))

\* computeDeboorDerivative whose base case returns the stored position
RECURSIVE computeDeboorDerivativeBasePosition(_, _, _, _, _)
computeDeboorDerivativeBasePosition(c, knotIndex, deg, globalT, derivativeLevel) ==
    IF deg = 0 THEN c.positions[knotIndex]
    ELSE LET multiplier == FDiv(Rat(deg, 1),
                                FSub(c.knots[knotIndex + c.splineDegree - deg],
                                     c.knots[knotIndex - 1]))
         IN IF derivativeLevel <= 1
            THEN FMul(multiplier,
                      FSub(computeDeboor(c, knotIndex, deg - 1, globalT),
                           computeDeboor(c, knotIndex - 1, deg - 1, globalT)))
            ELSE FMul(multiplier,
                      FSub(computeDeboorDerivativeBasePosition(c, knotIndex, deg - 1,
                                                   globalT, derivativeLevel - 1),
                           computeDeboorDerivativeBasePosition(c, knotIndex - 1, deg - 1,
                                                   globalT, derivativeLevel - 1)))

\* ---- the derivative recursion
RECURSIVE computeDeboorDerivative(_, _, _, _, _)
computeDeboorDerivative(c, knotIndex, deg, globalT, derivativeLevel) ==
    IF deg = 0 THEN Zero
    ELSE LET multiplier == FDiv(Rat(deg, 1),
                                FSub(c.knots[knotIndex + c.splineDegree - deg],
                                     c.knots[knotIndex - 1]))
         IN IF derivativeLevel <= 1
            THEN FMul(multiplier,
                      FSub(computeDeboor(c, knotIndex, deg - 1, globalT),
                           computeDeboor(c, knotIndex - 1, deg - 1, globalT)))
            ELSE FMul(multiplier,
                      FSub(computeDeboorDerivative(c, knotIndex, deg - 1, globalT,
                                                   derivativeLevel - 1),
                           computeDeboorDerivative(c, knotIndex - 1, deg - 1, globalT,
                                                   derivativeLevel - 1)))

\* ---- the element reads of the two recursions
\* every positions[] and knots[] subscript computeDeboor evaluates is in range
RECURSIVE DeboorInBounds(_, _, _)
DeboorInBounds(c, knotIndex, deg) ==
    IF deg = 0 THEN knotIndex \in DOMAIN c.positions
    ELSE /\ (knotIndex - 1) \in DOMAIN c.knots
         /\ (knotIndex + c.splineDegree - deg) \in DOMAIN c.knots
         /\ DeboorInBounds(c, knotIndex - 1, deg - 1)
         /\ DeboorInBounds(c, knotIndex, deg - 1)

\* every subscript computeDeboorDerivative evaluates is in range
RECURSIVE DerivativeInBounds(_, _, _, _)
DerivativeInBounds(c, knotIndex, deg, derivativeLevel) ==
    IF deg = 0 THEN TRUE
    ELSE /\ (knotIndex - 1) \in DOMAIN c.knots
         /\ (knotIndex + c.splineDegree - deg) \in DOMAIN c.knots
         /\ IF derivativeLevel <= 1
            THEN /\ DeboorInBounds(c, knotIndex, deg - 1)
                 /\ DeboorInBounds(c, knotIndex - 1, deg - 1)
            ELSE /\ DerivativeInBounds(c, knotIndex, deg - 1, derivativeLevel - 1)
                 /\ DerivativeInBounds(c, knotIndex - 1, deg - 1, derivativeLevel - 1)

\* some division of computeDeboor has a zero knot span as its divisor
RECURSIVE DeboorDividesByZero(_, _, _)
DeboorDividesByZero(c, knotIndex, deg) ==
    /\ deg # 0
    /\ \/ c.knots[knotIndex + c.splineDegree - deg] = c.knots[knotIndex - 1]
       \/ DeboorDividesByZero(c, knotIndex - 1, deg - 1)
       \/ DeboorDividesByZero(c, knotIndex, deg - 1)

\* some division of computeDeboorDerivative has a zero knot span as its divisor
RECURSIVE DerivativeDividesByZero(_, _, _, _)
DerivativeDividesByZero(c, knotIndex, deg, derivativeLevel) ==
    /\ deg # 0
    /\ \/ c.knots[knotIndex + c.splineDegree - deg] = c.knots[knotIndex - 1]
       \/ IF derivativeLevel <= 1
          THEN \/ DeboorDividesByZero(c, knotIndex, deg - 1)
               \/ DeboorDividesByZero(c, knotIndex - 1, deg - 1)
          ELSE \/ DerivativeDividesByZero(c, knotIndex, deg - 1, derivativeLevel - 1)
               \/ DerivativeDividesByZero(c, knotIndex - 1, deg - 1, derivativeLevel - 1)

\* getPosition with the parameter clamped into the curve's range
getPositionClampedT(c, globalT) ==
    LET segmentIndex == segmentForT(c, globalT)
        innerIndex == segmentIndex + (c.splineDegree - 1)
        lo == segmentT(c, 0)
        hi == segmentT(c, segmentCount(c))
        clampedT == IF FLess(globalT, lo) THEN lo
                    ELSE IF FLess(hi, globalT) THEN hi ELSE globalT
    IN <<computeDeboor(c, innerIndex + 1, c.splineDegree, clampedT)>>

\* ---- the queries of GenericBSplineCommon
getPosition(c, globalT) ==
    LET segmentIndex == segmentForT(c, globalT)
        innerIndex == segmentIndex + (c.splineDegree - 1)
    IN <<computeDeboor(c, innerIndex + 1, c.splineDegree, globalT)>>

getTangent(c, globalT) ==
    LET segmentIndex == segmentForT(c, globalT)
        innerIndex == segmentIndex + (c.splineDegree - 1)
    IN <<computeDeboor(c, innerIndex + 1, c.splineDegree, globalT),
         computeDeboorDerivative(c, innerIndex + 1, c.splineDegree, globalT, 1)>>

getCurvature(c, globalT) ==
    LET segmentIndex == segmentForT(c, globalT)
        innerIndex == segmentIndex + (c.splineDegree - 1)
    IN <<computeDeboor(c, innerIndex + 1, c.splineDegree, globalT),
         computeDeboorDerivative(c, innerIndex + 1, c.splineDegree, globalT, 1),
         computeDeboorDerivative(c, innerIndex + 1, c.splineDegree, globalT, 2)>>

getWiggle(c, globalT) ==
    LET segmentIndex == segmentForT(c, globalT)
        innerIndex == segmentIndex + (c.splineDegree - 1)
    IN <<computeDeboor(c, innerIndex + 1, c.splineDegree, globalT),
         computeDeboorDerivative(c, innerIndex + 1, c.splineDegree, globalT, 1),
         computeDeboorDerivative(c, innerIndex + 1, c.splineDegree, globalT, 2),
         computeDeboorDerivative(c, innerIndex + 1, c.splineDegree, globalT, 3)>>

\* SplineLibraryCalculus::gaussLegendreQuadratureIntegral(f, a, b): a weighted sum
\* of f at fixed abscissas scaled into [a, b]; modelled at order one (one
\* abscissa, the midpoint, with weight b - a), whose node is rational.
QuadratureNodes(a, b) == {FDiv(FAdd(a, b), Rat(2, 1))}

gaussLegendreQuadratureIntegral(f, a, b) ==
    FMul(f[FDiv(FAdd(a, b), Rat(2, 1))], FSub(b, a))

segmentLength(c, segmentIndex, a, b) ==
    LET innerIndex == segmentIndex + c.splineDegree - 1
        tDistance == FSub(c.knots[innerIndex + 1], c.knots[innerIndex])
        segmentFunction ==
            [t \in QuadratureNodes(a, b) |->
                FAbs(computeDeboorDerivative(c, innerIndex + 1, c.splineDegree, t, 1))]
    IN IF FLess(Zero, tDistance)
       THEN <<gaussLegendreQuadratureIntegral(segmentFunction, a, b)>>
       ELSE <<Zero>>

\* the subscripts evaluated by a point query that asks for derivatives 1..levels
PointQueryInBounds(c, segmentIndex, levels) ==
    LET knotIndex == segmentIndex + (c.splineDegree - 1) + 1
    IN /\ DeboorInBounds(c, knotIndex, c.splineDegree)
       /\ \A m \in 1..levels : DerivativeInBounds(c, knotIndex, c.splineDegree, m)

\* a point query that asks for derivatives 1..levels divides by a zero knot span
PointQueryDividesByZero(c, segmentIndex, levels) ==
    LET knotIndex == segmentIndex + (c.splineDegree - 1) + 1
    IN \/ DeboorDividesByZero(c, knotIndex, c.splineDegree)
       \/ \E m \in 1..levels : DerivativeDividesByZero(c, knotIndex, c.splineDegree, m)

SegmentKnotsInBounds(c, segmentIndex) ==
    LET innerIndex == segmentIndex + c.splineDegree - 1
    IN innerIndex \in DOMAIN c.knots /\ (innerIndex + 1) \in DOMAIN c.knots

SegmentLengthIntegrates(c, segmentIndex) ==
    LET innerIndex == segmentIndex + c.splineDegree - 1
    IN FLess(Zero, FSub(c.knots[innerIndex + 1], c.knots[innerIndex]))

SegmentLengthInBounds(c, segmentIndex) ==
    /\ SegmentKnotsInBounds(c, segmentIndex)
    /\ SegmentLengthIntegrates(c, segmentIndex)
         => DerivativeInBounds(c, segmentIndex + c.splineDegree, c.splineDegree, 1)

SegmentLengthDividesByZero(c, segmentIndex) ==
    /\ SegmentLengthIntegrates(c, segmentIndex)
    /\ DerivativeDividesByZero(c, segmentIndex + c.splineDegree, c.splineDegree, 1)

\* ---------------------------------------------------------------- construction
\* the looping position vector with points[0], not points[size-1], at its head
LoopingPositionsUnrotated(pts, deg, beyond) ==
    LET size == Size(pts)
        padding == deg - 1
    IN [j \in 0..(size + deg - 1) |->
          IF j = 0 THEN pts[0]
          ELSE IF j <= size THEN pts[j - 1]
          ELSE LET k == j - (size + deg - padding)
               IN IF k \in DOMAIN pts THEN pts[k] ELSE beyond[k]]

\* LoopingGenericBSpline's rotated position vector; `beyond` is what a read past
\* the end of points yields when copy_n is asked for more elements than there are
LoopingPositions(pts, deg, beyond) ==
    LET size == Size(pts)
        padding == deg - 1
    IN [j \in 0..(size + deg - 1) |->
          IF j = 0 THEN pts[size - 1]
          ELSE IF j <= size THEN pts[j - 1]
          ELSE LET k == j - (size + deg - padding)
               IN IF k \in DOMAIN pts THEN pts[k] ELSE beyond[k]]

\* the knot vector GenericBSpline builds
OpenKnots(pts, deg) ==
    LET size == Size(pts)
        padding == deg - 1
        indexToT == computeTValuesWithOuterPadding(pts, padding)
    IN CopyKnots(indexToT, padding, size + padding)

\* the knot vector LoopingGenericBSpline builds
LoopingKnots(pts, deg) ==
    LET size == Size(pts)
        padding == deg - 1
        indexToT == computeLoopingTValues(pts, padding)
    IN CopyKnots(indexToT, padding, size + padding + 1)

\* ---------------------------------------------------------------- inputs
Values == {Rat(v, 1) : v \in 0..MaxValue}

PointVectors(lo, hi) == UNION {[0..(n - 1) -> Values] : n \in lo..hi}

TValues == {Rat(n, TDen) : n \in (0 - TDen)..(TDen * (MaxPoints + 1))}

\* what a read outside a vector may yield
Garbage == {Zero, NonFinite}

NoQuery ==
    [op |-> "none", t |-> Zero, a |-> Zero, b |-> Zero, segment |-> 0,
     value |-> <<>>, inBounds |-> TRUE, dividesByZero |-> FALSE]

Answer(op, t, a, b, segment, value, inBounds, dividesByZero) ==
    [op |-> op, t |-> t, a |-> a, b |-> b, segment |-> segment,
     value |-> value, inBounds |-> inBounds, dividesByZero |-> dividesByZero]

Init ==
    /\ kind \in {"GenericBSpline", "LoopingGenericBSpline"}
    /\ points \in PointVectors(1, MaxPoints)
    /\ degree \in 1..MaxDegree
    /\ pc = "start"
    /\ baseSegmentCount = 0
    /\ common = NoCurve
    /\ query = NoQuery

\* GenericBSpline(points, degree): the base class is initialised first, with
\* points.size() - degree computed in size_t; the assert follows and is compiled
\* out when the build defines NDEBUG
GenericBSplineCtor ==
    /\ pc = "start"
    /\ kind = "GenericBSpline"
    /\ baseSegmentCount' = SizeT(Size(points) - degree)
    /\ \E NDEBUG \in BOOLEAN :
          IF ~NDEBUG /\ ~(Size(points) > degree)
          THEN pc' = "aborted" /\ common' = common
          ELSE /\ common' = GenericBSplineCommon(points, OpenKnots(points, degree),
                                                 degree)
               /\ pc' = "built"
    /\ UNCHANGED <<kind, points, degree, query>>

\* LoopingGenericBSpline(points, degree)
LoopingGenericBSplineCtor ==
    /\ pc = "start"
    /\ kind = "LoopingGenericBSpline"
    /\ baseSegmentCount' = SizeT(Size(points))
    /\ \E NDEBUG \in BOOLEAN :
          IF ~NDEBUG /\ ~(Size(points) > degree)
          THEN pc' = "aborted" /\ common' = common
          ELSE /\ \E beyond \in [0..(MaxDegree - 1) ->
                                   IF degree - 1 > Size(points) THEN Garbage ELSE {Zero}] :
                    common' = GenericBSplineCommon(
                                  LoopingPositions(points, degree, beyond),
                                  LoopingKnots(points, degree), degree)
               /\ pc' = "built"
    /\ UNCHANGED <<kind, points, degree, query>>

\* The queries are const methods: a call leaves the curve as it is and hands its
\* result to the caller (pc = "returned", the result in `query`), and Return gives
\* control back to the caller, who may query again.
\* A query whose subscripts stay in range answers with `value`; one that reads
\* outside a vector may crash or answer with anything
Respond(op, t, a, b, segment, n, inBounds, value, dividesByZero) ==
    IF inBounds
    THEN /\ query' = Answer(op, t, a, b, segment, value, TRUE, dividesByZero)
         /\ pc' = "returned"
    ELSE \/ /\ query' = Answer(op, t, a, b, segment, <<>>, FALSE, FALSE)
            /\ pc' = "crashed"
         \/ /\ \E g \in [1..n -> Garbage] :
                   query' = Answer(op, t, a, b, segment, g, FALSE, FALSE)
            /\ pc' = "returned"

SegmentForT ==
    /\ pc = "built"
    /\ \E t \in TValues :
          query' = Answer("segmentForT", t, Zero, Zero, segmentForT(common, t),
                          <<>>, TRUE, FALSE)
    /\ pc' = "returned"
    /\ UNCHANGED <<kind, points, degree, baseSegmentCount, common>>

GetPosition ==
    /\ pc = "built"
    /\ \E t \in TValues :
          LET seg == segmentForT(common, t)
              ok == PointQueryInBounds(common, seg, 0)
          IN Respond("getPosition", t, Zero, Zero, seg, 1, ok,
                     getPosition(common, t), PointQueryDividesByZero(common, seg, 0))
    /\ UNCHANGED <<kind, points, degree, baseSegmentCount, common>>

GetTangent ==
    /\ pc = "built"
    /\ \E t \in TValues :
          LET seg == segmentForT(common, t)
              ok == PointQueryInBounds(common, seg, 1)
          IN Respond("getTangent", t, Zero, Zero, seg, 2, ok,
                     getTangent(common, t), PointQueryDividesByZero(common, seg, 1))
    /\ UNCHANGED <<kind, points, degree, baseSegmentCount, common>>

GetCurvature ==
    /\ pc = "built"
    /\ \E t \in TValues :
          LET seg == segmentForT(common, t)
              ok == PointQueryInBounds(common, seg, 2)
          IN Respond("getCurvature", t, Zero, Zero, seg, 3, ok,
                     getCurvature(common, t), PointQueryDividesByZero(common, seg, 2))
    /\ UNCHANGED <<kind, points, degree, baseSegmentCount, common>>

GetWiggle ==
    /\ pc = "built"
    /\ \E t \in TValues :
          LET seg == segmentForT(common, t)
              ok == PointQueryInBounds(common, seg, 3)
          IN Respond("getWiggle", t, Zero, Zero, seg, 4, ok,
                     getWiggle(common, t), PointQueryDividesByZero(common, seg, 3))
    /\ UNCHANGED <<kind, points, degree, baseSegmentCount, common>>

\* segmentLength(segmentIndex, a, b) for a segment of the curve and a sub-interval
\* [a, b] of that segment's parameter range
SegmentLength ==
    /\ pc = "built"
    /\ \E seg \in 0..(MaxPoints - 1), a \in TValues, b \in TValues :
          /\ seg < segmentCount(common)
          /\ FLessEq(a, b)
          /\ SegmentKnotsInBounds(common, seg)
               => /\ FLessEq(segmentT(common, seg), a)
                  /\ FLessEq(b, segmentT(common, seg + 1))
          /\ LET ok == SegmentLengthInBounds(common, seg)
             IN Respond("segmentLength", Zero, a, b, seg, 1, ok,
                        segmentLength(common, seg, a, b),
                        SegmentLengthDividesByZero(common, seg))
    /\ UNCHANGED <<kind, points, degree, baseSegmentCount, common>>

Return ==
    /\ pc = "returned"
    /\ pc' = "built"
    /\ query' = NoQuery
    /\ UNCHANGED <<kind, points, degree, baseSegmentCount, common>>

Next ==
    \/ GenericBSplineCtor
    \/ LoopingGenericBSplineCtor
    \/ SegmentForT
    \/ GetPosition
    \/ GetTangent
    \/ GetCurvature
    \/ GetWiggle
    \/ SegmentLength
    \/ Return

Spec == Init /\ [][Next]_vars

\* ---------------------------------------------------------------- direct construction
\* GenericBSplineCommon(positions, knots, splineDegree) given a knot vector of the
\* caller's choosing: any non-decreasing one, equal adjacent knots included
NonDecreasing(k) == \A j \in DOMAIN k : (j + 1) \in DOMAIN k => FLessEq(k[j], k[j + 1])

KnotVectors(n) ==
    {k \in [0..(n - 1) -> {Rat(v, 1) : v \in 0..MaxKnot}] : NonDecreasing(k)}

InitCommon ==
    /\ kind = "GenericBSplineCommon"
    /\ degree \in 1..MaxDegree
    /\ points \in PointVectors(degree + 1, MaxPoints)
    /\ pc = "built"
    /\ baseSegmentCount = 0
    /\ common \in {GenericBSplineCommon(points, k, degree) :
                      k \in KnotVectors(Size(points) + degree - 1)}
    /\ query = NoQuery

NextCommon ==
    \/ SegmentForT
    \/ GetPosition
    \/ GetTangent
    \/ GetCurvature
    \/ GetWiggle
    \/ SegmentLength
    \/ Return

SpecCommon == InitCommon /\ [][NextCommon]_vars

\* ---------------------------------------------------------------- properties
\* a curve exists and was built from more than `degree` points
ValidCurve == pc \in {"built", "returned", "crashed"} /\ Size(points) > degree

Returned(op) == pc = "returned" /\ query.op = op

minimumParameter == segmentT(common, 0)

maximumParameter == segmentT(common, segmentCount(common))

InRange(t) == FLessEq(minimumParameter, t) /\ FLess(t, maximumParameter)

\* C1: on a curve with at least one segment, segmentForT(t) is an index in
\* 0 .. segmentCount()-1 for every t, and for t inside the parameter range it is
\* the segment whose interval [segmentT(i), segmentT(i+1)) contains t.
C1_SegmentForTLocates ==
    (ValidCurve /\ pc = "returned" /\ query.op \in {"segmentForT", "getPosition",
                                    "getTangent", "getCurvature", "getWiggle"})
    => /\ query.segment \in 0..(segmentCount(common) - 1)
       /\ InRange(query.t)
            => /\ FLessEq(segmentT(common, query.segment), query.t)
               /\ FLess(query.t, segmentT(common, query.segment + 1))

C1_Witness ==
    /\ ValidCurve
    /\ Returned("segmentForT")
    /\ degree = 2
    /\ InRange(query.t)
    /\ query.segment = 1
    /\ query.t # segmentT(common, 1)

\* the position the recursion gives on segment i at parameter t
SegmentPosition(i, t) ==
    computeDeboor(common, i + (common.splineDegree - 1) + 1, common.splineDegree, t)

lastSegment == segmentCount(common) - 1

\* C2 (as stated): a query below the minimum parameter returns the position at
\* the minimum parameter, and a query above the maximum parameter returns the
\* position at the maximum parameter.
C2_ClampedPosition ==
    (ValidCurve /\ Returned("getPosition"))
    => /\ FLess(query.t, minimumParameter)
            => query.value = getPosition(common, minimumParameter)
       /\ FLess(maximumParameter, query.t)
            => query.value = getPosition(common, maximumParameter)

\* C2 (amended): an out-of-range query clamps the segment and not the parameter:
\* below the minimum it is the first segment's recursion evaluated at t itself,
\* above the maximum the last segment's recursion evaluated at t itself.
C2_ClampedSegmentOnly ==
    (ValidCurve /\ Returned("getPosition"))
    => /\ FLess(query.t, minimumParameter)
            => query.segment = 0 /\ query.value = <<SegmentPosition(0, query.t)>>
       /\ FLess(maximumParameter, query.t)
            => /\ query.segment = lastSegment
               /\ query.value = <<SegmentPosition(lastSegment, query.t)>>

C2_Witness ==
    /\ ValidCurve
    /\ Returned("getPosition")
    /\ FLess(maximumParameter, query.t)
    /\ query.value # getPosition(common, maximumParameter)

\* C3: a derivative level above the spline degree gives the zero vector on every
\* segment and at every t, and raises no error: the second derivative of
\* getCurvature on a degree-1 spline, the third derivative of getWiggle on a
\* degree-1 or degree-2 spline.
C3_DerivativeAboveDegreeIsZero ==
    (ValidCurve /\ pc = "returned" /\ query.op \in {"getCurvature", "getWiggle"})
    => /\ query.inBounds
       /\ \A m \in 2..Len(query.value) - 1 :
             m > common.splineDegree => query.value[m + 1] = Zero
       /\ \A i \in 0..lastSegment : \A m \in 1..(MaxDegree + 2) :
             m > common.splineDegree
               => computeDeboorDerivative(common, i + common.splineDegree,
                                          common.splineDegree, query.t, m) = Zero

C3_Witness ==
    /\ ValidCurve
    /\ Returned("getWiggle")
    /\ common.splineDegree = 2
    /\ query.value[3] # Zero
    /\ query.value[4] = Zero

\* C4: with more than d points, segmentCount() is points.size() - d for a
\* GenericBSpline and points.size() for a LoopingGenericBSpline, whose position
\* vector has points.size() + d entries.
C4_SegmentCount ==
    ValidCurve
    => /\ kind = "GenericBSpline" => segmentCount(common) = Size(points) - degree
       /\ kind = "LoopingGenericBSpline"
            => /\ segmentCount(common) = Size(points)
               /\ Size(common.positions) = Size(points) + degree

C4_Witness ==
    /\ ValidCurve
    /\ kind = "LoopingGenericBSpline"
    /\ degree = 2
    /\ Size(points) = 3
    /\ Returned("segmentForT")
    /\ query.segment = 2

\* C5: at every interior segment boundary b = segmentT(i+1), the recursion run
\* with segment i's knot index and the recursion run with segment i+1's knot
\* index give the same position.
C5_ContinuousAtBoundaries ==
    ValidCurve
    => /\ pc = "built"
            => \A i \in 0..(lastSegment - 1) :
                  SegmentPosition(i, segmentT(common, i + 1))
                    = SegmentPosition(i + 1, segmentT(common, i + 1))
       /\ (Returned("getPosition") /\ query.segment >= 1
             /\ query.t = segmentT(common, query.segment))
            => query.value = <<SegmentPosition(query.segment - 1, query.t)>>

C5_Witness ==
    /\ ValidCurve
    /\ Returned("getPosition")
    /\ degree = 2
    /\ query.segment = 1
    /\ query.t = segmentT(common, 1)
    /\ query.value # getPosition(common, minimumParameter)

\* C6: a LoopingGenericBSpline is closed: the position of the last segment
\* (index points.size()-1) at the maximum parameter equals the position of
\* segment 0 at t = 0.
C6_LoopCloses ==
    (ValidCurve /\ kind = "LoopingGenericBSpline")
    => /\ pc = "built"
            => SegmentPosition(Size(points) - 1, maximumParameter)
                 = SegmentPosition(0, Zero)
       /\ (Returned("getPosition") /\ query.t = Zero)
            => query.value = <<SegmentPosition(Size(points) - 1, maximumParameter)>>

C6_Witness ==
    /\ ValidCurve
    /\ kind = "LoopingGenericBSpline"
    /\ degree = 2
    /\ Returned("getPosition")
    /\ query.t = Zero
    /\ query.value # <<points[0]>>
    /\ query.value # <<points[Size(points) - 1]>>

\* a knot vector with two equal adjacent knots
HasZeroLengthInterval(c) ==
    \E j \in DOMAIN c.knots : (j + 1) \in DOMAIN c.knots /\ c.knots[j] = c.knots[j + 1]

\* C7: on a curve whose non-decreasing knot vector has a zero-length interval, no
\* query (getPosition, getTangent, getCurvature, getWiggle, segmentLength) divides
\* by a zero knot span, whatever its parameter.
C7_NoDivisionByZeroSpan ==
    (pc = "returned" /\ HasZeroLengthInterval(common)) => ~query.dividesByZero

\* C8: construction from fewer than degree+1 points is rejected: no curve object
\* comes out of it.
C8_TooFewPointsRejected ==
    pc \in {"built", "returned", "crashed"} => Size(points) >= degree + 1

\* C9: the knot vector of a LoopingGenericBSpline leaves out the looping table's
\* trailing entry (index size+padding): it has one entry fewer than the table and
\* does not hold that entry's value.
C9_TrailingKnotDiscarded ==
    (ValidCurve /\ kind = "LoopingGenericBSpline")
    => LET padding == degree - 1
           indexToT == computeLoopingTValues(points, padding)
       IN /\ Size(common.knots) = Size(indexToT) - 1
          /\ \A j \in DOMAIN common.knots :
                common.knots[j] # indexToT[Size(points) + padding]

\* C10: on a curve built from more than d points, every positions[] and knots[]
\* subscript of a query, at every recursion level, is inside its vector.
C10_SubscriptsInBounds ==
    ValidCurve
    => /\ pc # "crashed"
       /\ pc = "returned" => query.inBounds
       /\ pc = "built"
            => \A i \in 0..lastSegment :
                  /\ PointQueryInBounds(common, i, 3)
                  /\ SegmentLengthInBounds(common, i)

C10_Witness ==
    /\ ValidCurve
    /\ kind = "LoopingGenericBSpline"
    /\ degree = 2
    /\ Returned("getWiggle")
    /\ query.segment = lastSegment
    /\ FLess(maximumParameter, query.t)
    /\ query.inBounds

====
